---- MODULE Spec2Model ----
(***************************************************************************)
(* TMP116 temperature sensor driver: the register codecs                   *)
(* (TMP116::Config, convertTemperatureRegister) and the driver's member    *)
(* functions, with the I2C transport as the environment.                   *)
(***************************************************************************)
EXTENDS Integers, Sequences, FiniteSets, TLC

VARIABLES
    deviceAddress,   \* TMP116::deviceAddress
    configRegister,  \* the device's configuration register, behind I2C address 0x01
    op,              \* the member function that has run ("none" before the call)
    args,            \* the arguments it was called with
    rd,              \* what the transport answered (would answer) to a read in the call
    wrOk,            \* whether the transport completed (would complete) a write in the call
    bus,             \* the I2C calls it issued, in order
    ret              \* the value it returned

vars == <<deviceAddress, configRegister, op, args, rd, wrOk, bus, ret>>

---------------------------------------------------------------------------
(* Types of TMP116.hpp *)

\* I2C::Register, uint16_t
Register == 0 .. 65535

\* std::nullopt of std::optional<Register> (outside Register)
Nullopt == -1

\* I2C::DeviceAddress
ADD0_GND == 72
ADD0_VCC == 73
ADD0_SDA == 74
ADD0_SCL == 75
DeviceAddress == {ADD0_GND, ADD0_VCC, ADD0_SDA, ADD0_SCL}

\* Register addresses
TMP116_TEMP_REG_ADDR == 0
TMP116_CFGR_REG_ADDR == 1
TMP116_HIGH_LIM_REG_ADDR == 2
TMP116_LOW_LIM_REG_ADDR == 3
TMP116_DEVICE_ID_REG_ADDR == 15

\* Config::Averages
AVG_1 == 0
AVG_8 == 32
AVG_32 == 64
AVG_64 == 96
Averages == {AVG_1, AVG_8, AVG_32, AVG_64}

\* Config::TemperatureConversionMode
CONTINUOUS == 0
SHUTDOWN == 1024
ONESHOT == 3072
TemperatureConversionMode == {CONTINUOUS, SHUTDOWN, ONESHOT}

\* Config::ConversionCycleTime, 0b000 << 7 .. 0b111 << 7
CONV_15_5MS == 0
CONV_125MS == 128
CONV_250MS == 256
CONV_500MS == 384
CONV_1000MS == 512
CONV_4000MS == 640
CONV_8000MS == 768
CONV_16000MS == 896
ConversionCycleTime ==
    {CONV_15_5MS, CONV_125MS, CONV_250MS, CONV_500MS,
     CONV_1000MS, CONV_4000MS, CONV_8000MS, CONV_16000MS}

\* Config::ThermalAlertModeSelect
THERM == 16
THERMAL_ALERT == 0
ThermalAlertModeSelect == {THERM, THERMAL_ALERT}

\* Config::AlertPolarity
ACTIVE_HIGH == 8
ACTIVE_LOW == 0
AlertPolarity == {ACTIVE_HIGH, ACTIVE_LOW}

\* Config::DataReadyAlertPinSelect
DATA_READY == 4
DATA_READY_ALERT == 0
DataReadyAlertPinSelect == {DATA_READY, DATA_READY_ALERT}

---------------------------------------------------------------------------
(* uint16_t bit operations: & and |, taken four bits at a time *)

\* a & b, bit by bit
RECURSIVE AndBits(_, _)
AndBits(a, b) ==
    IF a = 0 \/ b = 0 THEN 0
    ELSE (a % 2) * (b % 2) + 2 * AndBits(a \div 2, b \div 2)

\* a | b, bit by bit
RECURSIVE OrBits(_, _)
OrBits(a, b) ==
    IF a = 0 THEN b
    ELSE IF b = 0 THEN a
    ELSE (IF a % 2 = 1 \/ b % 2 = 1 THEN 1 ELSE 0) + 2 * OrBits(a \div 2, b \div 2)

AndNibble == [x \in 0 .. 15 |-> [y \in 0 .. 15 |-> AndBits(x, y)]]
OrNibble == [x \in 0 .. 15 |-> [y \in 0 .. 15 |-> OrBits(x, y)]]

\* a & b
RECURSIVE BitAnd(_, _)
BitAnd(a, b) ==
    IF a = 0 \/ b = 0 THEN 0
    ELSE AndNibble[a % 16][b % 16] + 16 * BitAnd(a \div 16, b \div 16)

\* a | b
RECURSIVE BitOr(_, _)
BitOr(a, b) ==
    IF a = 0 THEN b
    ELSE IF b = 0 THEN a
    ELSE OrNibble[a % 16][b % 16] + 16 * BitOr(a \div 16, b \div 16)

---------------------------------------------------------------------------
(* TMP116::Config *)

\* Mutant: the alias pattern 0b10 is not folded
ConfigFromRegister_NoAliasFold(r) ==
    [highAlertFlag             |-> BitAnd(r, 32768) # 0,
     lowAlertFlag              |-> BitAnd(r, 16384) # 0,
     dataReadyFlag             |-> BitAnd(r, 8192) # 0,
     eepromBusyFlag            |-> BitAnd(r, 4096) # 0,
     temperatureConversionMode |-> BitAnd(r, 3072),
     conversionCycleTime       |-> BitAnd(r, 896),
     averages                  |-> BitAnd(r, 96),
     thermalAlertMode          |-> BitAnd(r, 16),
     alertPolarity             |-> BitAnd(r, 8),
     dataReadyAlertSelection   |-> BitAnd(r, 4)]

\* Mutant: the fold tests for 0b11 (ONESHOT) in place of 0b10
ConfigFromRegister_FoldsOneShot(r) ==
    LET folded == IF BitAnd(r, 3072) = 3072 THEN BitAnd(r, 62463) ELSE r
    IN  [highAlertFlag             |-> BitAnd(r, 32768) # 0,
         lowAlertFlag              |-> BitAnd(r, 16384) # 0,
         dataReadyFlag             |-> BitAnd(r, 8192) # 0,
         eepromBusyFlag            |-> BitAnd(r, 4096) # 0,
         temperatureConversionMode |-> BitAnd(folded, 3072),
         conversionCycleTime       |-> BitAnd(folded, 896),
         averages                  |-> BitAnd(folded, 96),
         thermalAlertMode          |-> BitAnd(folded, 16),
         alertPolarity             |-> BitAnd(folded, 8),
         dataReadyAlertSelection   |-> BitAnd(folded, 4)]

\* Config::Config(Register configRegister)
ConfigFromRegister(r) ==
    LET folded == IF BitAnd(r, 3072) = 2048 THEN BitAnd(r, 62463) ELSE r
    IN  [highAlertFlag             |-> BitAnd(r, 32768) # 0,
         lowAlertFlag              |-> BitAnd(r, 16384) # 0,
         dataReadyFlag             |-> BitAnd(r, 8192) # 0,
         eepromBusyFlag            |-> BitAnd(r, 4096) # 0,
         temperatureConversionMode |-> BitAnd(folded, 3072),
         conversionCycleTime       |-> BitAnd(folded, 896),
         averages                  |-> BitAnd(folded, 96),
         thermalAlertMode          |-> BitAnd(folded, 16),
         alertPolarity             |-> BitAnd(folded, 8),
         dataReadyAlertSelection   |-> BitAnd(folded, 4)]

\* Config::Config(mode, cycle time, averages, thermal alert mode, polarity, pin select):
\* the flags keep their default member initialisers (false)
ConfigFromFields(m, c, a, t, p, d) ==
    [highAlertFlag             |-> FALSE,
     lowAlertFlag              |-> FALSE,
     dataReadyFlag             |-> FALSE,
     eepromBusyFlag            |-> FALSE,
     temperatureConversionMode |-> m,
     conversionCycleTime       |-> c,
     averages                  |-> a,
     thermalAlertMode          |-> t,
     alertPolarity             |-> p,
     dataReadyAlertSelection   |-> d]

\* Mutant: the flags are encoded too
ConfigToRegister_WithFlags(config) ==
    BitOr(IF config.highAlertFlag THEN 32768 ELSE 0,
    BitOr(IF config.lowAlertFlag THEN 16384 ELSE 0,
    BitOr(IF config.dataReadyFlag THEN 8192 ELSE 0,
    BitOr(IF config.eepromBusyFlag THEN 4096 ELSE 0,
    BitOr(config.temperatureConversionMode,
    BitOr(config.conversionCycleTime,
    BitOr(config.averages,
    BitOr(config.thermalAlertMode,
    BitOr(config.alertPolarity,
          config.dataReadyAlertSelection)))))))))

\* Config::operator Register()
ConfigToRegister(config) ==
    BitOr(config.temperatureConversionMode,
    BitOr(config.conversionCycleTime,
    BitOr(config.averages,
    BitOr(config.thermalAlertMode,
    BitOr(config.alertPolarity,
          config.dataReadyAlertSelection)))))

---------------------------------------------------------------------------
(* Temperature codec.  A float temperature is modelled exactly, as an      *)
(* integer count of steps of 1 / (128 * TemperatureSubdivision) degC:      *)
(* every register value times 0.0078125f is such a float, and so are the   *)
(* floats between two register steps.                                      *)

TemperatureSubdivision == 4

\* Mutant: the register is not reinterpreted as signed
Int16_Unsigned(registerValue) == registerValue

\* static_cast<int16_t>(Register)
Int16(registerValue) ==
    IF registerValue >= 32768 THEN registerValue - 65536 ELSE registerValue

\* static_cast<Register>(int16_t)
Uint16(i) == i % 65536

\* static_cast<int16_t>(float): the fraction is discarded (toward zero)
Truncate(n, d) == IF n >= 0 THEN n \div d ELSE -((-n) \div d)

\* float convertTemperatureRegister(Register registerValue)
convertTemperatureRegisterToFloat(registerValue) ==
    Int16(registerValue) * TemperatureSubdivision

\* Register convertTemperatureRegister(float temperature): the registers the
\* build can produce.  A quotient outside int16_t makes the float to int16_t
\* conversion undefined, so any register may result.
convertTemperatureRegisterToRegister(temperature) ==
    LET quotient == Truncate(temperature, TemperatureSubdivision)
    IN  IF quotient >= -32768 /\ quotient <= 32767
        THEN {Uint16(quotient)}
        ELSE Register

---------------------------------------------------------------------------
(* The I2C transport (TMP116::I2C), the environment of the driver.  A call *)
(* is recorded with the response the transport gave.                       *)

\* I2C::read(deviceAddress, memoryAddress): response is a Register or Nullopt
i2cRead(device, memoryAddress, response) ==
    [call |-> "read", deviceAddress |-> device, memoryAddress |-> memoryAddress,
     data |-> Nullopt, result |-> response]

\* I2C::write(deviceAddress, memoryAddress, data): echoes the data written,
\* or fails
i2cWrite(device, memoryAddress, data, ok) ==
    [call |-> "write", deviceAddress |-> device, memoryAddress |-> memoryAddress,
     data |-> data, result |-> IF ok THEN data ELSE Nullopt]

---------------------------------------------------------------------------
(* TMP116 member functions.  Each takes the driver's device address, its   *)
(* arguments and the transport's responses (read: what a read returns,     *)
(* writeOk: whether a write succeeds), and yields the I2C calls issued and *)
(* the value returned.                                                     *)

\* TMP116::getConfigRegister()
getConfigRegister(device, read) ==
    LET transmission == i2cRead(device, TMP116_CFGR_REG_ADDR, read)
    IN  [bus |-> <<transmission>>,
         ret |-> IF transmission.result # Nullopt THEN transmission.result ELSE Nullopt]

\* Mutant: a failed read yields the default Config in place of std::nullopt
getConfig_DefaultOnFailure(device, read) ==
    LET configTransmission == getConfigRegister(device, read)
    IN  [bus |-> configTransmission.bus,
         ret |-> IF configTransmission.ret # Nullopt
                 THEN <<ConfigFromRegister(configTransmission.ret)>>
                 ELSE <<ConfigFromFields(CONTINUOUS, CONV_1000MS, AVG_8, THERMAL_ALERT,
                                         ACTIVE_LOW, DATA_READY_ALERT)>>]

\* TMP116::getConfig(): std::optional<Config> as a sequence of length 0 or 1
getConfig(device, read) ==
    LET configTransmission == getConfigRegister(device, read)
    IN  [bus |-> configTransmission.bus,
         ret |-> IF configTransmission.ret # Nullopt
                 THEN <<ConfigFromRegister(configTransmission.ret)>>
                 ELSE <<>>]

\* Mutant: the register value is returned, not the transport's result
setConfig_ReturnsRegisterValue(device, config, writeOk) ==
    LET registerValue == ConfigToRegister(config)
        transmission  == i2cWrite(device, TMP116_CFGR_REG_ADDR, registerValue, writeOk)
    IN  [bus |-> <<transmission>>, ret |-> registerValue]

\* Mutant: a failed write is tried once more
setConfig_RetriesWrite(device, config, writeOk) ==
    LET registerValue == ConfigToRegister(config)
        transmission  == i2cWrite(device, TMP116_CFGR_REG_ADDR, registerValue, writeOk)
    IN  [bus |-> IF transmission.result # Nullopt
                 THEN <<transmission>>
                 ELSE <<transmission, transmission>>,
         ret |-> transmission.result]

\* TMP116::setConfig(Config config)
setConfig(device, config, writeOk) ==
    LET registerValue == ConfigToRegister(config)
        transmission  == i2cWrite(device, TMP116_CFGR_REG_ADDR, registerValue, writeOk)
    IN  [bus |-> <<transmission>>, ret |-> transmission.result]

\* Mutant: the alertPolarity parameter is not applied
MergeConfig_DropsAlertPolarity(current, o) ==
    [current EXCEPT
        !.temperatureConversionMode =
            IF o.temperatureConversionMode # Nullopt THEN o.temperatureConversionMode ELSE @,
        !.conversionCycleTime =
            IF o.conversionCycleTime # Nullopt THEN o.conversionCycleTime ELSE @,
        !.averages =
            IF o.averages # Nullopt THEN o.averages ELSE @,
        !.thermalAlertMode =
            IF o.thermalAlertMode # Nullopt THEN o.thermalAlertMode ELSE @,
        !.dataReadyAlertSelection =
            IF o.dataReadyAlertSelection # Nullopt THEN o.dataReadyAlertSelection ELSE @]

\* setConfig (partial), lines 130-135: the fields given replace the current ones
MergeConfig(current, o) ==
    [current EXCEPT
        !.temperatureConversionMode =
            IF o.temperatureConversionMode # Nullopt THEN o.temperatureConversionMode ELSE @,
        !.conversionCycleTime =
            IF o.conversionCycleTime # Nullopt THEN o.conversionCycleTime ELSE @,
        !.averages =
            IF o.averages # Nullopt THEN o.averages ELSE @,
        !.thermalAlertMode =
            IF o.thermalAlertMode # Nullopt THEN o.thermalAlertMode ELSE @,
        !.alertPolarity =
            IF o.alertPolarity # Nullopt THEN o.alertPolarity ELSE @,
        !.dataReadyAlertSelection =
            IF o.dataReadyAlertSelection # Nullopt THEN o.dataReadyAlertSelection ELSE @]

\* Mutant: the check for at least one parameter is missing
NoParameterSet_Never(o) == FALSE

\* setConfig (partial), lines 99-104: no parameter is set
NoParameterSet(o) ==
    /\ o.temperatureConversionMode = Nullopt
    /\ o.conversionCycleTime = Nullopt
    /\ o.averages = Nullopt
    /\ o.thermalAlertMode = Nullopt
    /\ o.alertPolarity = Nullopt
    /\ o.dataReadyAlertSelection = Nullopt

\* Mutant: the direct write of a complete configuration is missing
AllParametersSet_Never(o) == FALSE

\* setConfig (partial), lines 108-113: all parameters are set
AllParametersSet(o) ==
    /\ o.temperatureConversionMode # Nullopt
    /\ o.conversionCycleTime # Nullopt
    /\ o.averages # Nullopt
    /\ o.thermalAlertMode # Nullopt
    /\ o.alertPolarity # Nullopt
    /\ o.dataReadyAlertSelection # Nullopt

\* Mutant: only the conversion mode is compared
ConfigUnchanged_ModeOnly(config, current) ==
    config.temperatureConversionMode = current.temperatureConversionMode

\* Mutant: the comparison is inverted
ConfigUnchanged_Inverted(config, current) ==
    ConfigToRegister(config) # ConfigToRegister(current)

\* setConfig (partial), line 137: config == Register(Config{transmission.value()}),
\* both sides converted to Register
ConfigUnchanged(config, current) ==
    ConfigToRegister(config) = ConfigToRegister(current)

\* Mutant: the short circuit returns the register as it was read
setConfigPartial_ReturnsReadRegister(device, o, read, writeOk) ==
    IF NoParameterSet(o) THEN [bus |-> <<>>, ret |-> Nullopt]
    ELSE IF AllParametersSet(o)
    THEN setConfig(device,
                   ConfigFromFields(o.temperatureConversionMode, o.conversionCycleTime,
                                    o.averages, o.thermalAlertMode, o.alertPolarity,
                                    o.dataReadyAlertSelection),
                   writeOk)
    ELSE LET transmission == getConfig(device, read)
         IN  IF Len(transmission.ret) = 0
             THEN [bus |-> transmission.bus, ret |-> Nullopt]
             ELSE LET config == MergeConfig(transmission.ret[1], o)
                  IN  IF ConfigUnchanged(config, transmission.ret[1])
                      THEN [bus |-> transmission.bus, ret |-> read]
                      ELSE LET written == setConfig(device, config, writeOk)
                           IN  [bus |-> transmission.bus \o written.bus,
                                ret |-> written.ret]

\* TMP116::setConfig(std::optional<...> x 6)
setConfigPartial(device, o, read, writeOk) ==
    IF NoParameterSet(o) THEN [bus |-> <<>>, ret |-> Nullopt]
    ELSE IF AllParametersSet(o)
    THEN setConfig(device,
                   ConfigFromFields(o.temperatureConversionMode, o.conversionCycleTime,
                                    o.averages, o.thermalAlertMode, o.alertPolarity,
                                    o.dataReadyAlertSelection),
                   writeOk)
    ELSE LET transmission == getConfig(device, read)
         IN  IF Len(transmission.ret) = 0
             THEN [bus |-> transmission.bus, ret |-> Nullopt]
             ELSE LET config == MergeConfig(transmission.ret[1], o)
                  IN  IF ConfigUnchanged(config, transmission.ret[1])
                      THEN [bus |-> transmission.bus, ret |-> ConfigToRegister(config)]
                      ELSE LET written == setConfig(device, config, writeOk)
                           IN  [bus |-> transmission.bus \o written.bus,
                                ret |-> written.ret]

\* Mutant: a failed read yields 0.0 degC
getTemperature_ZeroOnFailure(device, read) ==
    LET transmission == i2cRead(device, TMP116_TEMP_REG_ADDR, read)
    IN  [bus |-> <<transmission>>,
         ret |-> IF transmission.result # Nullopt
                 THEN convertTemperatureRegisterToFloat(transmission.result)
                 ELSE 0]

\* TMP116::getTemperature(): -256.0f is -32768 steps of 0.0078125 degC
getTemperature(device, read) ==
    LET transmission == i2cRead(device, TMP116_TEMP_REG_ADDR, read)
    IN  [bus |-> <<transmission>>,
         ret |-> IF transmission.result # Nullopt
                 THEN convertTemperatureRegisterToFloat(transmission.result)
                 ELSE -256 * 128 * TemperatureSubdivision]

\* TMP116::getDeviceId()
getDeviceId(device, read) ==
    LET transmission == i2cRead(device, TMP116_DEVICE_ID_REG_ADDR, read)
    IN  [bus |-> <<transmission>>, ret |-> transmission.result]

\* TMP116::dataReady(): std::optional<bool> as a sequence of length 0 or 1
dataReady(device, read) ==
    LET transmission == getConfig(device, read)
    IN  [bus |-> transmission.bus,
         ret |-> IF Len(transmission.ret) = 0
                 THEN <<>>
                 ELSE <<transmission.ret[1].dataReadyFlag>>]

\* TMP116::setHighLimit(float temperature): one outcome for each register the
\* conversion can produce
setHighLimit(device, temperature, writeOk) ==
    {LET transmission == i2cWrite(device, TMP116_HIGH_LIM_REG_ADDR, registerValue, writeOk)
     IN  [bus |-> <<transmission>>, ret |-> transmission.result] :
        registerValue \in convertTemperatureRegisterToRegister(temperature)}

\* Mutant: the low limit is written to the high limit register
setLowLimit_WritesHighLimit(device, temperature, writeOk) ==
    {LET transmission == i2cWrite(device, TMP116_HIGH_LIM_REG_ADDR, registerValue, writeOk)
     IN  [bus |-> <<transmission>>, ret |-> transmission.result] :
        registerValue \in convertTemperatureRegisterToRegister(temperature)}

\* TMP116::setLowLimit(float temperature)
setLowLimit(device, temperature, writeOk) ==
    {LET transmission == i2cWrite(device, TMP116_LOW_LIM_REG_ADDR, registerValue, writeOk)
     IN  [bus |-> <<transmission>>, ret |-> transmission.result] :
        registerValue \in convertTemperatureRegisterToRegister(temperature)}

\* TMP116::getDeviceAddress(): the member deviceAddress
getDeviceAddress(current) == current

\* Mutant: the parameter shadows the member, which keeps its value
setDeviceAddress_KeepsMember(current, address) == current

\* TMP116::setDeviceAddress(deviceAddress): the new value of the member
setDeviceAddress(current, address) == address

---------------------------------------------------------------------------
(* The device behind the transport and the inputs of the calls *)

\* The configuration registers of the tests: 0x0220, 0x0000, 0xFFFF, 0xAAAA,
\* 0x5555, 0x0800, 0x2220
TestRegisters == {544, 0, 65535, 43690, 21845, 2048, 8736}

\* Further configuration registers, spread over the 16 bits
NumExtraRegisters == 1
ExtraRegisters == {(k * 10007) % 65536 : k \in 1 .. NumExtraRegisters}

\* The values the device's configuration register starts with
ConfigRegisterSamples == TestRegisters \cup ExtraRegisters

\* std::optional<T>
Optional(T) == T \cup {Nullopt}

\* The six optional parameters of setConfig (partial)
Overrides ==
    [temperatureConversionMode : Optional(TemperatureConversionMode),
     conversionCycleTime       : Optional(ConversionCycleTime),
     averages                  : Optional(Averages),
     thermalAlertMode          : Optional(ThermalAlertModeSelect),
     alertPolarity             : Optional(AlertPolarity),
     dataReadyAlertSelection   : Optional(DataReadyAlertPinSelect)]

\* Every value of struct Config: the members are public
ConfigValues ==
    [highAlertFlag             : BOOLEAN,
     lowAlertFlag              : BOOLEAN,
     dataReadyFlag             : BOOLEAN,
     eepromBusyFlag            : BOOLEAN,
     temperatureConversionMode : TemperatureConversionMode,
     conversionCycleTime       : ConversionCycleTime,
     averages                  : Averages,
     thermalAlertMode          : ThermalAlertModeSelect,
     alertPolarity             : AlertPolarity,
     dataReadyAlertSelection   : DataReadyAlertPinSelect]

\* The device keeps the writable bits (11..2) of a value successfully written
\* to its configuration register; its flag bits stay as they are
RECURSIVE DeviceAfter(_, _)
DeviceAfter(current, calls) ==
    IF calls = <<>> THEN current
    ELSE LET c == Head(calls)
             next == IF /\ c.call = "write"
                        /\ c.memoryAddress = TMP116_CFGR_REG_ADDR
                        /\ c.result # Nullopt
                     THEN BitOr(BitAnd(current, 61440), BitAnd(c.data, 4092))
                     ELSE current
         IN  DeviceAfter(next, Tail(calls))

---------------------------------------------------------------------------
(* The driver: one member function call on a constructed driver *)

\* TMP116::TMP116(i2c, deviceAddress), and the device as it is found
Init ==
    /\ deviceAddress \in DeviceAddress
    /\ configRegister \in ConfigRegisterSamples
    /\ op = "none"
    /\ args = <<>>
    /\ rd = Nullopt
    /\ wrOk = FALSE
    /\ bus = <<>>
    /\ ret = Nullopt

\* What the transport answers to a read of the configuration register: the
\* register the device holds, or a failure
ReadResponses == {configRegister, Nullopt}

\* The call returns: what the transport answered, what the call issued and
\* returned, what the device holds
Returns(name, arguments, read, writeOk, result) ==
    /\ op' = name
    /\ args' = arguments
    /\ rd' = read
    /\ wrOk' = writeOk
    /\ bus' = result.bus
    /\ ret' = result.ret
    /\ configRegister' = DeviceAfter(configRegister, result.bus)
    /\ UNCHANGED deviceAddress

\* A member function is called on the driver as constructed, or after calls
\* of setDeviceAddress; no other call has returned yet
Callable == op \in {"none", "setDeviceAddress"}

GetConfigRegister ==
    /\ Callable
    /\ \E read \in ReadResponses, writeOk \in BOOLEAN :
         Returns("getConfigRegister", <<>>, read, writeOk,
                 getConfigRegister(deviceAddress, read))

GetConfig ==
    /\ Callable
    /\ \E read \in ReadResponses, writeOk \in BOOLEAN :
         Returns("getConfig", <<>>, read, writeOk, getConfig(deviceAddress, read))

SetConfig(configs) ==
    /\ Callable
    /\ \E config \in configs, read \in ReadResponses, writeOk \in BOOLEAN :
         Returns("setConfig", config, read, writeOk,
                 setConfig(deviceAddress, config, writeOk))

SetConfigPartial ==
    /\ Callable
    /\ \E o \in Overrides, read \in ReadResponses, writeOk \in BOOLEAN :
         Returns("setConfigPartial", o, read, writeOk,
                 setConfigPartial(deviceAddress, o, read, writeOk))

\* The configurations a caller holds: the default one and the ones read back
ConfigInputs ==
    {ConfigFromFields(CONTINUOUS, CONV_1000MS, AVG_8, THERMAL_ALERT, ACTIVE_LOW,
                      DATA_READY_ALERT)}
        \cup {ConfigFromRegister(r) : r \in ConfigRegisterSamples}

Next ==
    \/ GetConfigRegister
    \/ GetConfig
    \/ SetConfig(ConfigInputs)
    \/ SetConfigPartial

Spec == Init /\ [][Next]_vars

---------------------------------------------------------------------------
(* Every public member function: one call on the driver of the test        *)
(* fixture (constructed with ADD0_GND), after any number of calls of       *)
(* setDeviceAddress                                                        *)

\* The temperature registers of the tests (0x15D2, and 0xFB00 for -10.0 degC),
\* the extremes 0x8000 and 0x7FFF, and 0x0000, 0x0001, 0xFFFF
TemperatureRegisters == {5586, 64256, 32768, 32767, 0, 1, 65535}

\* The device ID of the tests (0x0118), and 0x0000, 0xFFFF
DeviceIds == {280, 0, 65535}

\* The float arguments of setHighLimit and setLowLimit within the range of
\* the register: the temperatures of TemperatureRegisters (-10.0 degC among
\* them) and their float neighbours off the 1/128 degC grid
TemperatureInputs ==
    {convertTemperatureRegisterToFloat(r) + d : r \in TemperatureRegisters, d \in {-1, 0, 1}}

\* Float arguments beyond the range of the register: 256.0 degC and
\* -256.0078125 degC
OutOfRangeTemperatures ==
    {32768 * TemperatureSubdivision, -32769 * TemperatureSubdivision}

InitOperations ==
    /\ deviceAddress = ADD0_GND
    /\ configRegister \in ConfigRegisterSamples
    /\ op = "none"
    /\ args = <<>>
    /\ rd = Nullopt
    /\ wrOk = FALSE
    /\ bus = <<>>
    /\ ret = Nullopt

GetTemperature ==
    /\ Callable
    /\ \E read \in Optional(TemperatureRegisters), writeOk \in BOOLEAN :
         Returns("getTemperature", <<>>, read, writeOk,
                 getTemperature(deviceAddress, read))

GetDeviceId ==
    /\ Callable
    /\ \E read \in Optional(DeviceIds), writeOk \in BOOLEAN :
         Returns("getDeviceId", <<>>, read, writeOk, getDeviceId(deviceAddress, read))

DataReady ==
    /\ Callable
    /\ \E read \in ReadResponses, writeOk \in BOOLEAN :
         Returns("dataReady", <<>>, read, writeOk, dataReady(deviceAddress, read))

SetHighLimit(temperatures) ==
    /\ Callable
    /\ \E temperature \in temperatures, read \in ReadResponses, writeOk \in BOOLEAN :
         \E result \in setHighLimit(deviceAddress, temperature, writeOk) :
            Returns("setHighLimit", temperature, read, writeOk, result)

SetLowLimit(temperatures) ==
    /\ Callable
    /\ \E temperature \in temperatures, read \in ReadResponses, writeOk \in BOOLEAN :
         \E result \in setLowLimit(deviceAddress, temperature, writeOk) :
            Returns("setLowLimit", temperature, read, writeOk, result)

\* No transport call; the member function returns nothing
SetDeviceAddress ==
    /\ Callable
    /\ \E address \in DeviceAddress :
         /\ deviceAddress' = setDeviceAddress(deviceAddress, address)
         /\ op' = "setDeviceAddress"
         /\ args' = address
         /\ bus' = <<>>
         /\ ret' = Nullopt
         /\ UNCHANGED <<configRegister, rd, wrOk>>

\* No transport call
GetDeviceAddress ==
    /\ Callable
    /\ op' = "getDeviceAddress"
    /\ args' = <<>>
    /\ bus' = <<>>
    /\ ret' = getDeviceAddress(deviceAddress)
    /\ UNCHANGED <<deviceAddress, configRegister, rd, wrOk>>

NextOperations ==
    \/ GetTemperature
    \/ GetDeviceId
    \/ GetConfigRegister
    \/ GetConfig
    \/ DataReady
    \/ SetConfig(ConfigInputs)
    \/ SetConfigPartial
    \/ SetHighLimit(TemperatureInputs)
    \/ SetLowLimit(TemperatureInputs)
    \/ SetDeviceAddress
    \/ GetDeviceAddress

SpecOperations == InitOperations /\ [][NextOperations]_vars

---------------------------------------------------------------------------
(* The codecs on their own, over every register and every Config value,    *)
(* and the configuration writes: one call on the driver of the test        *)
(* fixture (ADD0_GND), the device's configuration register reading 0xFFFF  *)
(* (every flag and both read-only bits set)                                *)

InitCodec ==
    /\ deviceAddress = ADD0_GND
    /\ configRegister = 65535
    /\ op = "none"
    /\ args = <<>>
    /\ rd = Nullopt
    /\ wrOk = FALSE
    /\ bus = <<>>
    /\ ret = Nullopt

\* The call of a static function returns: no driver, no transport involved
Computes(name, argument, result) ==
    /\ op' = name
    /\ args' = argument
    /\ ret' = result
    /\ UNCHANGED <<deviceAddress, configRegister, rd, wrOk, bus>>

\* Config config{registerValue}; Register registerValue = config;
ConfigDecodeEncode ==
    /\ op = "none"
    /\ \E r \in Register :
         Computes("Config", r,
                  [config        |-> ConfigFromRegister(r),
                   registerValue |-> ConfigToRegister(ConfigFromRegister(r))])

\* Register registerValue = config, for any Config value
ConfigEncode ==
    /\ op = "none"
    /\ \E config \in ConfigValues :
         Computes("Register", config, ConfigToRegister(config))

\* convertTemperatureRegister(convertTemperatureRegister(registerValue))
TemperatureDecodeEncode ==
    /\ op = "none"
    /\ \E r \in Register :
         \E back \in convertTemperatureRegisterToRegister(convertTemperatureRegisterToFloat(r)) :
            Computes("convertTemperatureRegister", r,
                     [temperature   |-> convertTemperatureRegisterToFloat(r),
                      registerValue |-> back])

NextCodec ==
    \/ ConfigDecodeEncode
    \/ ConfigEncode
    \/ TemperatureDecodeEncode
    \/ SetConfig(ConfigValues)
    \/ SetConfigPartial

SpecCodec == InitCodec /\ [][NextCodec]_vars

---------------------------------------------------------------------------
(* The alarm limits: one call of setHighLimit or setLowLimit on the driver *)
(* of the test fixture, with float arguments within and beyond the range   *)
(* of the register                                                         *)

NextLimits ==
    \/ SetHighLimit(TemperatureInputs \cup OutOfRangeTemperatures)
    \/ SetLowLimit(TemperatureInputs \cup OutOfRangeTemperatures)

SpecLimits == InitCodec /\ [][NextLimits]_vars

---------------------------------------------------------------------------
(* A setConfig (partial) call that returned a register, called once more   *)
(* with the same parameters, on the driver of the test fixture.  Between   *)
(* the two calls the device's status flags take any value; the transport   *)
(* does not fail in the second call.                                       *)

\* The device's configuration register with its status flags (bits 15..12)
\* replaced
DeviceWithFlags(current, flags) == (flags * 4096) + (current % 4096)

InitRepeat ==
    /\ deviceAddress = ADD0_GND
    /\ configRegister \in ConfigRegisterSamples
    /\ op = "none"
    /\ args = <<>>
    /\ rd = Nullopt
    /\ wrOk = FALSE
    /\ bus = <<>>
    /\ ret = Nullopt

\* The second call, on a transport that does not fail: its parameters are
\* those of the first, kept with the register the first call returned
SetConfigPartialAgain ==
    /\ op = "setConfigPartial"
    /\ ret # Nullopt
    /\ \E flags \in 0 .. 15 :
         \E device \in {DeviceWithFlags(configRegister, flags)} :
            \E result \in {setConfigPartial(deviceAddress, args, device, TRUE)} :
               /\ op' = "setConfigPartialAgain"
               /\ args' = [overrides |-> args, first |-> ret]
               /\ rd' = device
               /\ wrOk' = TRUE
               /\ bus' = result.bus
               /\ ret' = result.ret
               /\ configRegister' = DeviceAfter(device, result.bus)
               /\ UNCHANGED deviceAddress

NextRepeat ==
    \/ SetConfigPartial
    \/ SetConfigPartialAgain

SpecRepeat == InitRepeat /\ [][NextRepeat]_vars

---------------------------------------------------------------------------
(* The claims.  The register layout is restated here with plain            *)
(* arithmetic, independently of the bit operations of the model.           *)

WritableFields ==
    {"temperatureConversionMode", "conversionCycleTime", "averages",
     "thermalAlertMode", "alertPolarity", "dataReadyAlertSelection"}

\* The parameters a setConfig (partial) call supplies
Supplied(o) == {f \in WritableFields : o[f] # Nullopt}

\* At least one and fewer than six overrides
IsPartial(o) == Cardinality(Supplied(o)) \in 1 .. 5

\* Bits lo .. lo + width - 1 of r, left in place
Bits(r, lo, width) == ((r \div (2 ^ lo)) % (2 ^ width)) * (2 ^ lo)

\* The writable field f of configuration register r, the mode pattern 0b10
\* read as 0b00 (CONTINUOUS)
FieldOfRegister(r, f) ==
    CASE f = "temperatureConversionMode" ->
             IF Bits(r, 10, 2) = 2048 THEN 0 ELSE Bits(r, 10, 2)
      [] f = "conversionCycleTime"     -> Bits(r, 7, 3)
      [] f = "averages"                -> Bits(r, 5, 2)
      [] f = "thermalAlertMode"        -> Bits(r, 4, 1)
      [] f = "alertPolarity"           -> Bits(r, 3, 1)
      [] f = "dataReadyAlertSelection" -> Bits(r, 2, 1)

\* Field f after the call: the override if one is supplied, else the field of r
MergedField(r, o, f) == IF o[f] # Nullopt THEN o[f] ELSE FieldOfRegister(r, f)

\* The register of the merged configuration (the fields occupy disjoint bits)
MergedRegister(r, o) ==
    MergedField(r, o, "temperatureConversionMode")
        + MergedField(r, o, "conversionCycleTime")
        + MergedField(r, o, "averages")
        + MergedField(r, o, "thermalAlertMode")
        + MergedField(r, o, "alertPolarity")
        + MergedField(r, o, "dataReadyAlertSelection")

IsRead(c, memoryAddress) ==
    c.call = "read" /\ c.memoryAddress = memoryAddress

IsWrite(c, memoryAddress) ==
    c.call = "write" /\ c.memoryAddress = memoryAddress

\* C1 (merge short-circuit): a setConfig with 1..5 overrides, each equal to the
\* field the successfully read register r decodes to (so that the merged
\* configuration encodes as encode(decode(r)) does), issues exactly one read of
\* address 0x01 and no write, and returns the register encode(decode(r)), whose
\* six decoded fields are those of r.
C1_MergeShortCircuit ==
    (/\ op = "setConfigPartial"
     /\ IsPartial(args)
     /\ rd # Nullopt
     /\ \A f \in Supplied(args) : args[f] = FieldOfRegister(rd, f))
    => /\ Len(bus) = 1
       /\ IsRead(bus[1], 1)
       /\ bus[1].result = rd
       /\ ret # Nullopt
       /\ ret = MergedRegister(rd, args)
       /\ \A f \in WritableFields : FieldOfRegister(ret, f) = FieldOfRegister(rd, f)

\* C1's example: current 0x0220, conversionCycleTime = CONV_1000MS and
\* averages = AVG_8 given, 0x0220 returned after one read
C1_Witness ==
    /\ op = "setConfigPartial"
    /\ rd = 544
    /\ Supplied(args) = {"conversionCycleTime", "averages"}
    /\ args.conversionCycleTime = CONV_1000MS
    /\ args.averages = AVG_8
    /\ Len(bus) = 1
    /\ ret = 544

\* C2 (merge real update): a setConfig with 1..5 overrides, one of which
\* differs from the field the successfully read register r decodes to, issues
\* one read of address 0x01 and then one write to address 0x01, of the register
\* that has the overridden fields replaced and every other writable field as
\* decoded from r.
C2_MergeRealUpdate ==
    (/\ op = "setConfigPartial"
     /\ IsPartial(args)
     /\ rd # Nullopt
     /\ \E f \in Supplied(args) : args[f] # FieldOfRegister(rd, f))
    => /\ Len(bus) = 2
       /\ IsRead(bus[1], 1)
       /\ bus[1].result = rd
       /\ IsWrite(bus[2], 1)
       /\ bus[2].data = MergedRegister(rd, args)
       /\ \A f \in WritableFields :
            FieldOfRegister(bus[2].data, f) = MergedField(rd, args, f)

\* C2's example: current 0x0220, THERM, ACTIVE_HIGH and DATA_READY given,
\* 0x023C written
C2_Witness ==
    /\ op = "setConfigPartial"
    /\ rd = 544
    /\ Supplied(args) = {"thermalAlertMode", "alertPolarity", "dataReadyAlertSelection"}
    /\ args.thermalAlertMode = THERM
    /\ args.alertPolarity = ACTIVE_HIGH
    /\ args.dataReadyAlertSelection = DATA_READY
    /\ Len(bus) = 2
    /\ bus[2].data = 572

\* C3 (merge fast path): a setConfig with all six overrides issues no read and
\* exactly one write to address 0x01, of the OR of the six field patterns,
\* whatever the device holds, and returns the transport's write result.
C3_MergeFastPath ==
    (/\ op = "setConfigPartial"
     /\ Supplied(args) = WritableFields)
    => /\ Len(bus) = 1
       /\ IsWrite(bus[1], 1)
       /\ bus[1].data = args.temperatureConversionMode + args.conversionCycleTime
                            + args.averages + args.thermalAlertMode
                            + args.alertPolarity + args.dataReadyAlertSelection
       /\ bus[1].result = (IF wrOk THEN bus[1].data ELSE Nullopt)
       /\ ret = bus[1].result

\* C3's example (0x0FFC written and returned), with a device that already
\* holds the six fields of 0x0FFC (0xFFFF)
C3_Witness ==
    /\ op = "setConfigPartial"
    /\ args.temperatureConversionMode = ONESHOT
    /\ args.conversionCycleTime = CONV_16000MS
    /\ args.averages = AVG_64
    /\ args.thermalAlertMode = THERM
    /\ args.alertPolarity = ACTIVE_HIGH
    /\ args.dataReadyAlertSelection = DATA_READY
    /\ rd = 65535
    /\ Len(bus) = 1
    /\ bus[1].data = 4092
    /\ ret = 4092

\* C4 (merge no-op guard): a setConfig with no override returns failure and
\* issues no transport call, whatever the transport would answer.
C4_MergeNoOpGuard ==
    (/\ op = "setConfigPartial"
     /\ Supplied(args) = {})
    => /\ ret = Nullopt
       /\ bus = <<>>

\* A no-override call on a transport that would have answered
C4_Witness ==
    /\ op = "setConfigPartial"
    /\ Supplied(args) = {}
    /\ rd # Nullopt
    /\ wrOk
    /\ ret = Nullopt

\* C5 (transport failure propagation): a setConfig with 1..5 overrides whose
\* read of the configuration register fails returns failure, and no write is
\* attempted.
C5_ReadFailurePropagates ==
    (/\ op = "setConfigPartial"
     /\ IsPartial(args)
     /\ rd = Nullopt)
    => /\ ret = Nullopt
       /\ \A i \in 1 .. Len(bus) : bus[i].call # "write"
       /\ Len(bus) = 1
       /\ IsRead(bus[1], 1)

\* A partial call whose read fails while a write would have succeeded
C5_Witness ==
    /\ op = "setConfigPartial"
    /\ IsPartial(args)
    /\ rd = Nullopt
    /\ wrOk
    /\ Len(bus) = 1
    /\ ret = Nullopt

\* A setConfig (partial) call with no parameter set
NoOverrides ==
    [temperatureConversionMode |-> Nullopt,
     conversionCycleTime       |-> Nullopt,
     averages                  |-> Nullopt,
     thermalAlertMode          |-> Nullopt,
     alertPolarity             |-> Nullopt,
     dataReadyAlertSelection   |-> Nullopt]

\* A transport call of the operation failed
TransportFailed == \E i \in 1 .. Len(bus) : bus[i].result = Nullopt

\* C6 as claimed (failure kinds distinguishable): the result of a setConfig
\* (partial) whose transport read or write failed differs from the result the
\* same driver gives a call with no override.
C6_FailureKindsDistinguishable ==
    (/\ op = "setConfigPartial"
     /\ Supplied(args) # {}
     /\ TransportFailed)
    => ret # setConfigPartial(deviceAddress, NoOverrides, rd, wrOk).ret

\* C6 as amended: a setConfig (partial) with no override and one whose
\* transport read or write failed both return the empty optional; only the bus
\* tells them apart: no transport call in the first case, and in the second at
\* least one, the failed call being the last.
C6_FailureKindsCoincide ==
    op = "setConfigPartial"
    => /\ Supplied(args) = {} => (ret = Nullopt /\ bus = <<>>)
       /\ TransportFailed =>
            /\ ret = Nullopt
            /\ Supplied(args) # {}
            /\ bus[Len(bus)].result = Nullopt
            /\ \A i \in 1 .. Len(bus) - 1 : bus[i].result # Nullopt

\* A merge whose read succeeds and whose write fails
C6_Witness ==
    /\ op = "setConfigPartial"
    /\ IsPartial(args)
    /\ Len(bus) = 2
    /\ bus[1].result # Nullopt
    /\ bus[2].result = Nullopt
    /\ ret = Nullopt

\* Bits 15..12 (the status flags) and bits 1..0 of register r are zero
ReadOnlyBitsClear(r) == Bits(r, 12, 4) = 0 /\ Bits(r, 0, 2) = 0

AliasFoldedAndLsbCleared(r) ==
    r - Bits(r, 0, 2) - (IF Bits(r, 10, 2) = 2048 THEN 2048 ELSE 0)

C9_AliasFoldAndExhaustiveDecode ==
    op = "Config" =>
        /\ ret.config.temperatureConversionMode \in TemperatureConversionMode
        /\ Bits(args, 10, 2) = 2048 =>
             /\ ret.config.temperatureConversionMode = CONTINUOUS
             /\ ret.config =
                    [ConfigFromRegister(args - 2048)
                        EXCEPT !.temperatureConversionMode = CONTINUOUS]
             /\ ConfigFromRegister(args - 2048).temperatureConversionMode = CONTINUOUS
             /\ ret.config.highAlertFlag = (Bits(args, 15, 1) # 0)
             /\ ret.config.lowAlertFlag = (Bits(args, 14, 1) # 0)
             /\ ret.config.dataReadyFlag = (Bits(args, 13, 1) # 0)
             /\ ret.config.eepromBusyFlag = (Bits(args, 12, 1) # 0)
             /\ \A f \in WritableFields : ret.config[f] = FieldOfRegister(args, f)

\* 0x0800 decodes to CONTINUOUS
C9_Witness ==
    /\ op = "Config"
    /\ args = 2048
    /\ ret.config.temperatureConversionMode = CONTINUOUS

\* C10 (temperature round trip): every register r decodes to its signed
\* two's-complement value in steps of 1/128 degC and encodes back to r.
C10_TemperatureRoundTrip ==
    op = "convertTemperatureRegister" =>
        /\ ret.registerValue = args
        /\ ret.temperature =
             (IF args >= 32768 THEN args - 65536 ELSE args) * TemperatureSubdivision
        /\ args = 32768 => ret.temperature = -256 * 128 * TemperatureSubdivision
        /\ args = 32767 => ret.temperature = 32767 * TemperatureSubdivision
        /\ args = 65535 => ret.temperature = -TemperatureSubdivision

\* 0x8000 decodes to -256.0 degC and encodes back to 0x8000
C10_Witness ==
    /\ op = "convertTemperatureRegister"
    /\ args = 32768
    /\ ret.temperature = -256 * 128 * TemperatureSubdivision
    /\ ret.registerValue = 32768

\* C11 (temperature sentinel): getTemperature issues exactly one read of
\* address 0x00 and no write; a successful read of v returns the signed value
\* of v in steps of 1/128 degC, and a failed read returns -256.0 degC, the value
\* a successful read of 0x8000 returns; what is returned is always a
\* temperature of the register's range, never a failure value.
C11_TemperatureSentinel ==
    op = "getTemperature" =>
        /\ Len(bus) = 1
        /\ IsRead(bus[1], 0)
        /\ bus[1].result = rd
        /\ rd # Nullopt =>
             ret = (IF rd >= 32768 THEN rd - 65536 ELSE rd) * TemperatureSubdivision
        /\ rd = Nullopt =>
             /\ ret = -256 * 128 * TemperatureSubdivision
             /\ ret = getTemperature(deviceAddress, 32768).ret
        /\ ret \in {n * TemperatureSubdivision : n \in -32768 .. 32767}

\* A failed read answered with -256.0 degC
C11_Witness ==
    /\ op = "getTemperature"
    /\ rd = Nullopt
    /\ Len(bus) = 1
    /\ bus[1].result = Nullopt
    /\ ret = -256 * 128 * TemperatureSubdivision

\* The float temperature of register r, in steps of 1 / (128 *
\* TemperatureSubdivision) degC
TemperatureOfRegister(r) ==
    (IF r >= 32768 THEN r - 65536 ELSE r) * TemperatureSubdivision

\* C12 (alarm-limit writes are unconditional): setHighLimit(t) issues no read
\* and exactly one write to address 0x02, setLowLimit(t) no read and exactly
\* one write to address 0x03, whatever the device holds; each returns the
\* transport's write result, failure if the write fails.  For t within
\* -256.0 degC .. 256.0 degC (exclusive) the value written is t truncated
\* toward zero to the 1/128 degC grid (-10.0 -> 0xFB00); beyond that range it
\* is some register.
C12_LimitWritesUnconditional ==
    op \in {"setHighLimit", "setLowLimit"} =>
        /\ Len(bus) = 1
        /\ IsWrite(bus[1], IF op = "setHighLimit" THEN 2 ELSE 3)
        /\ bus[1].data \in 0 .. 65535
        /\ (/\ args > -32769 * TemperatureSubdivision
            /\ args < 32768 * TemperatureSubdivision) =>
             LET written == TemperatureOfRegister(bus[1].data)
             IN  IF args >= 0
                 THEN written <= args /\ args < written + TemperatureSubdivision
                 ELSE written - TemperatureSubdivision < args /\ args <= written
        /\ args = -10 * 128 * TemperatureSubdivision => bus[1].data = 64256
        /\ bus[1].result = (IF wrOk THEN bus[1].data ELSE Nullopt)
        /\ ret = bus[1].result

\* The low limit -10.0 degC written as 0xFB00 to address 0x03 and returned
C12_Witness ==
    /\ op = "setLowLimit"
    /\ args = -10 * 128 * TemperatureSubdivision
    /\ Len(bus) = 1
    /\ bus[1].memoryAddress = 3
    /\ bus[1].data = 64256
    /\ ret = 64256

\* The positions of the reads, and of the writes, among the transport calls
ReadCalls == {i \in 1 .. Len(bus) : bus[i].call = "read"}
WriteCalls == {i \in 1 .. Len(bus) : bus[i].call = "write"}

\* C13 (no retries, bounded bus traffic): every public operation issues at
\* most one read and at most one write, the read before the write; a transport
\* call that fails is the operation's last, and the operation then returns
\* failure (the empty optional), getTemperature excepted.
C13_NoRetriesBoundedTraffic ==
    /\ Cardinality(ReadCalls) <= 1
    /\ Cardinality(WriteCalls) <= 1
    /\ ReadCalls \cup WriteCalls = 1 .. Len(bus)
    /\ \A i \in ReadCalls, j \in WriteCalls : i < j
    /\ \A i \in 1 .. Len(bus) : bus[i].result = Nullopt => i = Len(bus)
    /\ TransportFailed =>
         /\ op \in {"getTemperature", "getDeviceId", "getConfigRegister", "getConfig",
                    "dataReady", "setConfig", "setConfigPartial", "setHighLimit",
                    "setLowLimit"}
         /\ op \in {"getConfig", "dataReady"} => ret = <<>>
         /\ op \notin {"getConfig", "dataReady", "getTemperature"} => ret = Nullopt

\* setConfig(Config) whose write fails: one write, failure returned
C13_Witness ==
    /\ op = "setConfig"
    /\ ~wrOk
    /\ Len(bus) = 1
    /\ bus[1].call = "write"
    /\ bus[1].result = Nullopt
    /\ ret = Nullopt

\* Register r with its status-flag bits 15..12 and its bits 1..0 cleared
WritableBits(r) == Bits(r, 2, 10)

\* What two runs of an operation put on the bus agrees: the same calls, of the
\* same addresses, with the same data written
SameTraffic(calls, others) ==
    /\ Len(calls) = Len(others)
    /\ \A i \in 1 .. Len(calls) :
         /\ calls[i].call = others[i].call
         /\ calls[i].memoryAddress = others[i].memoryAddress
         /\ calls[i].data = others[i].data

\* C14 (change detection compares only the six writable fields): a setConfig
\* with 1..5 overrides whose read succeeds with r issues a write if and only if
\* a supplied override differs from the field r decodes to (0b10 read as
\* CONTINUOUS); the calls issued, the value written and the value returned are
\* those of the same call on r with the status-flag bits 15..12 and bits 1..0
\* all cleared, and on r with all of them set, so they are the same for any
\* two registers that differ only in these bits.
C14_ChangeDetectionOnWritableFields ==
    (/\ op = "setConfigPartial"
     /\ IsPartial(args)
     /\ rd # Nullopt)
    => LET cleared == setConfigPartial(deviceAddress, args, WritableBits(rd), wrOk)
           set     == setConfigPartial(deviceAddress, args, WritableBits(rd) + 61440 + 3, wrOk)
       IN  /\ (\E i \in 1 .. Len(bus) : bus[i].call = "write")
                <=> (\E f \in Supplied(args) : args[f] # FieldOfRegister(rd, f))
           /\ \A i \in 1 .. Len(bus) :
                bus[i].call = "write" => bus[i].data = MergedRegister(WritableBits(rd), args)
           /\ SameTraffic(bus, cleared.bus)
           /\ ret = cleared.ret
           /\ SameTraffic(bus, set.bus)
           /\ ret = set.ret

\* 0x2220, which is 0x0220 with the data-ready flag set, read by a call that
\* supplies the two fields 0x0220 holds: no write, 0x0220 returned
C14_Witness ==
    /\ op = "setConfigPartial"
    /\ rd = 8736
    /\ Supplied(args) = {"conversionCycleTime", "averages"}
    /\ args.conversionCycleTime = CONV_1000MS
    /\ args.averages = AVG_8
    /\ Len(bus) = 1
    /\ bus[1].call = "read"
    /\ ret = 544

\* C15 (the device address is the driver's only mutable state): the driver
\* holds the constructor's address (ADD0_GND here) until setDeviceAddress is
\* called; setDeviceAddress makes its argument the driver's address and issues
\* no transport call; every other operation, successful or failed, leaves the
\* address as it is and passes it to every transport call it issues.
C15_AddressSetOnlyBySetter ==
    /\ [](op = "none" => deviceAddress = ADD0_GND)
    /\ [][/\ op' = "setDeviceAddress" =>
               /\ deviceAddress' = args'
               /\ bus' = <<>>
          /\ op' # "setDeviceAddress" =>
               /\ deviceAddress' = deviceAddress
               /\ \A i \in 1 .. Len(bus') : bus'[i].deviceAddress = deviceAddress]_vars

\* getTemperature reads from ADD0_SCL on a driver constructed with ADD0_GND:
\* setDeviceAddress(ADD0_SCL) came in between
C15_Witness ==
    /\ op = "getTemperature"
    /\ deviceAddress = ADD0_SCL
    /\ Len(bus) = 1
    /\ bus[1].deviceAddress = ADD0_SCL
    /\ bus[1].deviceAddress # ADD0_GND

====
